---- MODULE Spec2Model ----
(***************************************************************************)
(* Model of rss_bot.py: one process that, run after run, reads rss.config, *)
(* loads data.json, fetches the feeds, selects the recent unseen entries,  *)
(* sends each to Telegram and then rewrites data.json.                     *)
(*                                                                         *)
(* Text is a sequence of one-character strings ("" is <<>>).  A value that *)
(* may be missing from a dict is None (<<>>) or Some(v) (<<v>>).           *)
(* A time.struct_time is a record [day, sec]; mktime turns it into seconds. *)
(***************************************************************************)
EXTENDS Integers, Sequences, FiniteSets, TLC

\* ---- bounds of the model ----
MaxRuns == 2
MaxBatch == 2
MaxTick == 1

\* ---- program constants ----
MAX_FETCH_DAYS == 1

\* first reading of the system clock in the model (seconds)
StartClock == 2 * 24 * 60 * 60

None == <<>>
Some(x) == <<x>>

\* Python truthiness of an optional text: missing and "" are both falsy
Truthy(opt) == opt # None /\ opt[1] # <<>>

\* Python's `a or b`
PyOr(a, b) == IF Truthy(a) THEN a ELSE b

\* dict.get(key, default)
Get(opt, default) == IF opt = None THEN default ELSE opt[1]

\* ---- text helpers ----
CodePoint(c) ==
    CASE c = "\n" -> 10
      [] c = " " -> 32
      [] c = "#" -> 35
      [] c = "1" -> 49
      [] c = "2" -> 50
      [] c = ":" -> 58
      [] c = "F" -> 70
      [] c = "a" -> 97
      [] c = "b" -> 98
      [] c = "l" -> 108
      [] c = "t" -> 116
      [] c = "u" -> 117
      [] c = "z" -> 122

\* str < str in Python: lexicographic by code point
RECURSIVE StrLess(_, _)
StrLess(a, b) ==
    IF b = <<>> THEN FALSE
    ELSE IF a = <<>> THEN TRUE
    ELSE IF Head(a) = Head(b) THEN StrLess(Tail(a), Tail(b))
    ELSE CodePoint(Head(a)) < CodePoint(Head(b))

IsSpace(c) == c \in {" ", "\n"}

RECURSIVE LStrip(_)
LStrip(s) == IF s # <<>> /\ IsSpace(Head(s)) THEN LStrip(Tail(s)) ELSE s

RECURSIVE RStrip(_)
RStrip(s) ==
    IF s # <<>> /\ IsSpace(s[Len(s)]) THEN RStrip(SubSeq(s, 1, Len(s) - 1)) ELSE s

\* str.strip()
Strip(s) == RStrip(LStrip(s))

\* sorted(history): the keys in ascending order
RECURSIVE sorted(_)
sorted(S) ==
    IF S = {} THEN <<>>
    ELSE LET m == CHOOSE x \in S : \A y \in S \ {x} : StrLess(x, y)
         IN <<m>> \o sorted(S \ {m})

Range(s) == {s[i] : i \in 1..Len(s)}

\* ---- the files ----
\* rss.config as written by ensure_config_exists: two comment lines and one address
DefaultConfig ==
    << <<"#", " ", "a", "\n">>, <<"#", " ", "b", "\n">>, <<"1", "\n">> >>

\* rss.config: missing, or a sequence of lines
ConfigFiles ==
    { None,
      Some(<< <<"#", "a", "\n">>, <<" ", "\n">> >>),
      Some(<< <<" ", "1", "\n">>, <<"\n">>, <<"2">> >>) }

\* load_config_urls over the lines of the file
RECURSIVE load_config_urls(_)
load_config_urls(lines) ==
    IF lines = <<>> THEN <<>>
    ELSE LET stripped == Strip(Head(lines))
         IN IF stripped = <<>> \/ Head(stripped) = "#"
            THEN load_config_urls(Tail(lines))
            ELSE <<stripped>> \o load_config_urls(Tail(lines))

\* data.json: kind "absent" (no file), "json" (a JSON array of keys, data) or
\* "torn" (opened for writing and not yet completely written: not parsable)
AbsentFile == [kind |-> "absent", data |-> <<>>]
JsonFile(list) == [kind |-> "json", data |-> list]
TornFile(list) == [kind |-> "torn", data |-> list]

\* ensure_history_exists
ensure_history_exists_reset(file) ==
    IF file.kind = "json" THEN file ELSE JsonFile(<<>>)

ensure_history_exists(file) ==
    IF file.kind # "absent" THEN file ELSE JsonFile(<<>>)

\* ensure_config_exists
ensure_config_exists(file) ==
    IF file # None THEN file ELSE Some(DefaultConfig)

\* load_history on a parsable file
load_history_skip_first(file) == Range(SubSeq(file.data, 2, Len(file.data)))

load_history(file) == Range(file.data)

\* the keys a reader of data.json gets: none from a missing or torn file
Persisted(file) == IF file.kind = "json" THEN Range(file.data) ELSE {}

\* ---- entries ----
Stamp(d, s) == Some([day |-> d, sec |-> s])

\* time.mktime
mktime(st) == st.day * (24 * 60 * 60) + st.sec

Entry(id, guid, link, title, pub, upd, cre) ==
    [id |-> id, guid |-> guid, link |-> link, title |-> title,
     published_parsed |-> pub, updated_parsed |-> upd, created_parsed |-> cre,
     source_title |-> None]

\* what the feeds can deliver.  With the clock at StartClock an entry stamped
\* Stamp(1, 0) is exactly MAX_FETCH_DAYS days old; one second later it is one
\* second older than that.  Stamp(1, 1) is one second younger, Stamp(0, 0) a day older.
EntryA1 == Entry(Some(<<"a">>), None, Some(<<"l">>), Some(<<"t">>), Stamp(1, 0), Stamp(0, 0), None)
EntryA2 == Entry(None, Some(<<"a">>), None, None, None, Stamp(1, 1), Stamp(0, 0))
EntryLT1 == Entry(Some(<<>>), None, Some(<<"l">>), Some(<<"t">>), None, None, Stamp(1, 0))
EntryLT2 == Entry(None, Some(<<>>), Some(<<"l">>), Some(<<"t">>), Stamp(1, 1), None, None)
EntryLU == Entry(None, None, Some(<<"l">>), Some(<<"u">>), Stamp(1, 1), None, None)
EntryB == Entry(Some(<<"b">>), None, Some(<<"l">>), None, None, None, None)

\* feedparser.parse(url): the feed's title and subtitle and the entries it may list
Feed(url) ==
    IF url = <<"1">>
    THEN [title |-> Some(<<"F">>), subtitle |-> None,
          pool |-> {EntryA1, EntryLT1, EntryLU}]
    ELSE [title |-> None, subtitle |-> Some(<<>>),
          pool |-> {EntryA2, EntryLT2, EntryB}]

\* the sequences over S of length at most n
RECURSIVE SeqsUpTo(_, _)
SeqsUpTo(S, n) ==
    IF n = 0 THEN {<<>>}
    ELSE LET shorter == SeqsUpTo(S, n - 1)
         IN shorter \cup {Append(s, x) : s \in {t \in shorter : Len(t) = n - 1}, x \in S}

\* fetch_entries: every batch the addresses urls can yield, at most n entries long;
\* each entry carries its feed's title, subtitle or address as source_title
RECURSIVE fetch_entries(_, _)
fetch_entries(urls, n) ==
    IF urls = <<>> THEN {<<>>}
    ELSE LET url == Head(urls)
             feed == Feed(url)
             source_title == PyOr(PyOr(feed.title, feed.subtitle), Some(url))
             tagged == {[e EXCEPT !.source_title = source_title] : e \in feed.pool}
         IN UNION {{first \o rest : rest \in fetch_entries(Tail(urls), n - Len(first))} :
                   first \in SeqsUpTo(tagged, n)}

extract_entry_id_link_only(entry) ==
    LET entry_id == PyOr(entry.id, entry.guid)
    IN IF Truthy(entry_id) THEN entry_id[1]
       ELSE Get(entry.link, <<>>) \o <<":", ":">>

\* extract_entry_id
extract_entry_id(entry) ==
    LET entry_id == PyOr(entry.id, entry.guid)
    IN IF Truthy(entry_id) THEN entry_id[1]
       ELSE Get(entry.link, <<>>) \o <<":", ":">> \o Get(entry.title, <<>>)

\* extract_entry_timestamp: None, or Some(seconds)
extract_entry_timestamp(entry) ==
    IF entry.published_parsed # None THEN Some(mktime(entry.published_parsed[1]))
    ELSE IF entry.updated_parsed # None THEN Some(mktime(entry.updated_parsed[1]))
    ELSE IF entry.created_parsed # None THEN Some(mktime(entry.created_parsed[1]))
    ELSE None

is_recent_entry_strict(entry, max_days, now) ==
    LET timestamp == extract_entry_timestamp(entry)
    IN IF timestamp = None THEN FALSE
       ELSE LET max_age_seconds == max_days * 24 * 60 * 60
            IN (now - timestamp[1]) < max_age_seconds

is_recent_entry_undated(entry, max_days, now) ==
    LET timestamp == extract_entry_timestamp(entry)
    IN IF timestamp = None THEN TRUE
       ELSE LET max_age_seconds == max_days * 24 * 60 * 60
            IN (now - timestamp[1]) <= max_age_seconds

\* is_recent_entry, with the value time.time() returns in it as now
is_recent_entry(entry, max_days, now) ==
    LET timestamp == extract_entry_timestamp(entry)
    IN IF timestamp = None THEN FALSE
       ELSE LET max_age_seconds == max_days * 24 * 60 * 60
            IN (now - timestamp[1]) <= max_age_seconds

select_step_no_add(acc, entry, i, now) ==
    IF ~is_recent_entry(entry, MAX_FETCH_DAYS, now) THEN acc
    ELSE LET entry_id == extract_entry_id(entry)
         IN IF entry_id \in acc.history THEN acc
            ELSE [history |-> acc.history,
                  new_entries |-> Append(acc.new_entries, entry),
                  new_idx |-> Append(acc.new_idx, i)]

select_step_add_link(acc, entry, i, now) ==
    IF ~is_recent_entry(entry, MAX_FETCH_DAYS, now) THEN acc
    ELSE LET entry_id == extract_entry_id(entry)
         IN IF entry_id \in acc.history THEN acc
            ELSE [history |-> acc.history \cup {Get(entry.link, <<>>)},
                  new_entries |-> Append(acc.new_entries, entry),
                  new_idx |-> Append(acc.new_idx, i)]

\* one iteration of the selection loop of main, on the accumulator
\* [history, new_entries, new_idx]; new_idx records the positions selected
select_step_add_first(acc, entry, i, now) ==
    LET entry_id == extract_entry_id(entry)
        marked == [acc EXCEPT !.history = @ \cup {entry_id}]
    IN IF ~is_recent_entry(entry, MAX_FETCH_DAYS, now) THEN marked
       ELSE IF entry_id \in acc.history THEN acc
            ELSE [history |-> acc.history \cup {entry_id},
                  new_entries |-> Append(acc.new_entries, entry),
                  new_idx |-> Append(acc.new_idx, i)]

select_step_reset(acc, entry, i, now) ==
    IF ~is_recent_entry(entry, MAX_FETCH_DAYS, now) THEN acc
    ELSE LET entry_id == extract_entry_id(entry)
         IN IF entry_id \in acc.history THEN acc
            ELSE [history |-> {entry_id},
                  new_entries |-> Append(acc.new_entries, entry),
                  new_idx |-> Append(acc.new_idx, i)]

select_step_prepend(acc, entry, i, now) ==
    IF ~is_recent_entry(entry, MAX_FETCH_DAYS, now) THEN acc
    ELSE LET entry_id == extract_entry_id(entry)
         IN IF entry_id \in acc.history THEN acc
            ELSE [history |-> acc.history \cup {entry_id},
                  new_entries |-> <<entry>> \o acc.new_entries,
                  new_idx |-> <<i>> \o acc.new_idx]

select_step(acc, entry, i, now) ==
    IF ~is_recent_entry(entry, MAX_FETCH_DAYS, now) THEN acc
    ELSE LET entry_id == extract_entry_id(entry)
         IN IF entry_id \in acc.history THEN acc
            ELSE [history |-> acc.history \cup {entry_id},
                  new_entries |-> Append(acc.new_entries, entry),
                  new_idx |-> Append(acc.new_idx, i)]

RECURSIVE select_loop(_, _, _, _)
select_loop(i, es, rs, acc) ==
    IF i > Len(es) THEN acc
    ELSE select_loop(i + 1, es, rs, select_step(acc, es[i], i, rs[i]))

\* the selection pass of main over the batch es with seen-set seen, where rs[i]
\* is what time.time() returns while entry i is examined
SelectPass(es, seen, rs) ==
    select_loop(1, es, rs, [history |-> seen, new_entries |-> <<>>, new_idx |-> <<>>])

next_after_select_always(new) == "send"

\* `if not new_entries: return`, else on to the send loop
next_after_select(new) == IF new = <<>> THEN "done" ELSE "send"

save_history_slice(history) == JsonFile(Tail(sorted(history)))

\* save_history: the file once json.dump has completed
save_history(history) == JsonFile(sorted(history))

\* the readings time.time() can give while the entries es are examined in turn,
\* starting no earlier than from: non-decreasing, within the modelled span of the
\* clock.  is_recent_entry does not read the clock for an entry without timestamp:
\* its position repeats the reading before it.
RECURSIVE Readings(_, _)
Readings(es, from) ==
    IF es = <<>> THEN {<<>>}
    ELSE LET ticks == IF extract_entry_timestamp(Head(es)) = None
                      THEN {from}
                      ELSE from..(StartClock + MaxTick)
         IN UNION {{<<t>> \o rest : rest \in Readings(Tail(es), t)} : t \in ticks}

\* ---- the message ----

\* the value None of a key that is present in an entry (a missing key is None
\* of this module, a text t is Some(t))
Null == <<<<>>, <<>>>>

\* entry.get(key, default): Null or Some(text)
dict_get(entry, key, default) ==
    IF key \notin DOMAIN entry \/ entry[key] = None THEN Some(default) ELSE entry[key]

\* a call that returned text, and a call that raised
Returned(text) == [ok |-> TRUE, text |-> text]
Raised == [ok |-> FALSE, text |-> <<>>]

\* the characters html.escape(text, quote=True) replaces
EscapeChar(c) ==
    CASE c = "&" -> <<"&", "a", "m", "p", ";">>
      [] c = "<" -> <<"&", "l", "t", ";">>
      [] c = ">" -> <<"&", "g", "t", ";">>
      [] c = "\"" -> <<"&", "q", "u", "o", "t", ";">>
      [] c = "'" -> <<"&", "#", "x", "2", "7", ";">>
      [] OTHER -> <<c>>

RECURSIVE html_escape(_)
html_escape(text) ==
    IF text = <<>> THEN <<>> ELSE EscapeChar(Head(text)) \o html_escape(Tail(text))

\* escape_html: html.escape calls text.replace, which None does not have
escape_html(value) ==
    IF value = Null THEN Raised ELSE Returned(html_escape(value[1]))

DefaultMaxLength == 200

\* shorten_text
shorten_text(text, max_length) ==
    IF Len(text) <= max_length THEN text
    ELSE SubSeq(text, 1, max_length - 3) \o <<".", ".", ".">>

\* str.replace("\n", " ")
ReplaceNewlines(text) ==
    [i \in 1..Len(text) |-> IF text[i] = "\n" THEN " " ELSE text[i]]

\* the placeholders of build_message and its three pictographs, one element
\* per character, named by code point
NoTitle == <<"(", "U+65E0", "U+6807", "U+9898", ")">>
UnknownSource == <<"U+672A", "U+77E5", "U+6765", "U+6E90">>
Newspaper == "U+1F4F0"
Memo == "U+1F4DD"
LinkSign == "U+1F517"

\* build_message: the text of the message, or Raised
build_message(entry) ==
    LET title == escape_html(dict_get(entry, "title", NoTitle))
        source == escape_html(dict_get(entry, "source_title", UnknownSource))
        first == dict_get(entry, "summary", <<>>)
        raw == IF Truthy(first) THEN first ELSE dict_get(entry, "description", <<>>)
        summary == IF raw = Null THEN Raised
                   ELSE escape_html(Some(shorten_text(Strip(ReplaceNewlines(raw[1])),
                                                      DefaultMaxLength)))
        link == escape_html(dict_get(entry, "link", <<>>))
    IN IF ~title.ok \/ ~source.ok \/ ~summary.ok \/ ~link.ok THEN Raised
       ELSE Returned(
              <<"[">> \o source.text \o <<"]", " ", Newspaper, " ", "<", "b", ">">>
                \o title.text \o <<"<", "/", "b", ">">>
                \o (IF summary.text # <<>>
                    THEN <<"\n", "\n", Memo, " ">> \o summary.text ELSE <<>>)
                \o (IF link.text # <<>>
                    THEN <<"\n", LinkSign, " ">> \o link.text ELSE <<>>))

\* sys.exit status of a finished run: 0 for a return from main, 1 for sys.exit(1)
\* and for an uncaught exception, 137 for SIGKILL
ExitStatus(o) ==
    IF o \in {"no_urls", "nothing_new", "ok"} THEN 0
    ELSE IF o = "killed" THEN 137
    ELSE 1

VARIABLES
    config,       \* rss.config
    disk,         \* data.json
    clock,        \* the system clock, seconds
    pc,           \* where main is: idle, load, fetch, select, send, write, done
    outcome,      \* how the last run ended
    urls,         \* main's urls
    history,      \* main's history
    entries,      \* main's entries
    new_entries,  \* main's new_entries
    pos,          \* position of the send loop in new_entries
    new_idx,      \* positions in entries of new_entries
    reads,        \* the clock readings of the selection pass
    selected,     \* main's locals hold the outcome of the selection pass
    before,       \* the keys persisted when this run started
    saveCalls,    \* calls of save_history in this run
    runCalls,     \* keys passed to send_to_telegram in this run, in order
    attempted,    \* keys ever passed to send_to_telegram
    repeated,     \* keys passed to send_to_telegram more than once
    allNormal,    \* no run so far was aborted by an exception or killed
    runs,         \* runs started
    token         \* the environment's TELEGRAM_BOT_TOKEN in this run

vars == <<config, disk, clock, pc, outcome, urls, history, entries, new_entries, pos,
          new_idx, reads, selected, before, saveCalls, runCalls, attempted, repeated,
          allNormal, runs, token>>

files == <<config, disk>>
locals == <<urls, history, entries, new_entries, pos, new_idx, reads, selected>>
sendlog == <<runCalls, attempted, repeated>>

Init ==
    /\ config \in ConfigFiles
    /\ disk = AbsentFile
    /\ clock = StartClock
    /\ pc = "idle"
    /\ outcome = "none"
    /\ urls = <<>>
    /\ history = {}
    /\ entries = <<>>
    /\ new_entries = <<>>
    /\ pos = 1
    /\ new_idx = <<>>
    /\ reads = <<>>
    /\ selected = FALSE
    /\ before = {}
    /\ saveCalls = 0
    /\ runCalls = <<>>
    /\ attempted = {}
    /\ repeated = {}
    /\ allNormal = TRUE
    /\ runs = 0
    /\ token = None

\* the keys of a data.json left by earlier use: one that the feeds still carry
\* and one that they no longer do
SeedKeys == {<<"a">>, <<"z">>}

\* the state before the first run when data.json holds SeedKeys
InitSeeded ==
    /\ config \in ConfigFiles
    /\ disk = save_history(SeedKeys)
    /\ clock = StartClock
    /\ pc = "idle"
    /\ outcome = "none"
    /\ urls = <<>>
    /\ history = {}
    /\ entries = <<>>
    /\ new_entries = <<>>
    /\ pos = 1
    /\ new_idx = <<>>
    /\ reads = <<>>
    /\ selected = FALSE
    /\ before = {}
    /\ saveCalls = 0
    /\ runCalls = <<>>
    /\ attempted = {}
    /\ repeated = {}
    /\ allNormal = TRUE
    /\ runs = 0
    /\ token = None

has_token_not_none(tok) == tok # None

\* `if not token` of main, negated
has_token(tok) == Truthy(tok)

\* a run ends: main returns, sys.exit is called, or an exception escapes
Finish(o) ==
    /\ pc' = "done"
    /\ outcome' = o
    /\ allNormal' = (allNormal /\ o \notin {"load_error", "format_error", "send_error", "killed"})

\* main up to `if not urls: return`, in a fresh process
StartRun ==
    /\ pc \in {"idle", "done"}
    /\ runs < MaxRuns
    /\ runs' = runs + 1
    /\ config' = ensure_config_exists(config)
    /\ disk' = ensure_history_exists(disk)
    /\ before' = Persisted(disk)
    /\ history' = {}
    /\ entries' = <<>>
    /\ new_entries' = <<>>
    /\ pos' = 1
    /\ new_idx' = <<>>
    /\ reads' = <<>>
    /\ selected' = FALSE
    /\ saveCalls' = 0
    /\ runCalls' = <<>>
    /\ token' \in {None, Some(<<>>), Some(<<"t">>)}
    /\ IF ~has_token(token')
       THEN /\ urls' = <<>>
            /\ Finish("no_token")
       ELSE /\ urls' = load_config_urls(config'[1])
            /\ IF urls' = <<>>
               THEN Finish("no_urls")
               ELSE /\ pc' = "load"
                    /\ outcome' = "none"
                    /\ UNCHANGED allNormal
    /\ UNCHANGED <<clock, attempted, repeated>>

\* history = load_history(); json.load raises on a file that is not JSON
LoadHistory ==
    /\ pc = "load"
    /\ IF disk.kind = "json"
       THEN /\ history' = load_history(disk)
            /\ pc' = "fetch"
            /\ UNCHANGED <<outcome, allNormal>>
       ELSE /\ Finish("load_error")
            /\ UNCHANGED history
    /\ UNCHANGED <<files, clock, urls, entries, new_entries, pos, new_idx, reads,
                   selected, before, saveCalls, sendlog, runs, token>>

\* entries = fetch_entries(urls)
Fetch ==
    /\ pc = "fetch"
    /\ entries' \in fetch_entries(urls, MaxBatch)
    /\ pc' = "select"
    /\ UNCHANGED <<files, clock, outcome, urls, history, new_entries, pos, new_idx,
                   reads, selected, before, saveCalls, sendlog, allNormal, runs, token>>

\* the selection loop and `if not new_entries: return`
Select ==
    /\ pc = "select"
    /\ \E rs \in Readings(entries, clock) :
          LET r == SelectPass(entries, history, rs)
          IN /\ reads' = rs
             /\ clock' = IF rs = <<>> THEN clock ELSE rs[Len(rs)]
             /\ history' = r.history
             /\ new_entries' = r.new_entries
             /\ new_idx' = r.new_idx
             /\ selected' = TRUE
             /\ IF next_after_select(r.new_entries) = "done"
                THEN Finish("nothing_new")
                ELSE /\ pc' = next_after_select(r.new_entries)
                     /\ UNCHANGED <<outcome, allNormal>>
    /\ pos' = 1
    /\ UNCHANGED <<files, urls, entries, before, saveCalls, sendlog, runs, token>>

\* one iteration of the send loop: build_message returns or raises, then
\* send_to_telegram returns or raises; the file becomes newDisk
SendThen(newDisk) ==
    /\ pc = "send"
    /\ pos <= Len(new_entries)
    /\ IF ~build_message(new_entries[pos]).ok
       THEN /\ Finish("format_error")
            /\ UNCHANGED <<pos, disk, sendlog>>
       ELSE /\ LET entry_id == extract_entry_id(new_entries[pos])
               IN /\ runCalls' = Append(runCalls, entry_id)
                  /\ attempted' = attempted \cup {entry_id}
                  /\ repeated' = IF entry_id \in attempted
                                 THEN repeated \cup {entry_id} ELSE repeated
            /\ \E ok \in BOOLEAN :
                  IF ok
                  THEN /\ pos' = pos + 1
                       /\ pc' = "send"
                       /\ disk' = newDisk
                       /\ UNCHANGED <<outcome, allNormal>>
                  ELSE /\ Finish("send_error")
                       /\ UNCHANGED <<pos, disk>>
    /\ UNCHANGED <<config, clock, urls, history, entries, new_entries, new_idx, reads,
                   selected, before, saveCalls, runs, token>>

Send_SaveEach == SendThen(save_history(history))

Send == SendThen(disk)

SaveOpen_Early ==
    /\ pc = "send"
    /\ pos >= Len(new_entries)
    /\ disk' = TornFile(<<>>)
    /\ saveCalls' = saveCalls + 1
    /\ pc' = "write"
    /\ UNCHANGED <<config, clock, outcome, locals, before, sendlog, allNormal, runs, token>>

\* the send loop is over; save_history: open(HISTORY_PATH, "w") truncates the file
SaveOpen ==
    /\ pc = "send"
    /\ pos > Len(new_entries)
    /\ disk' = TornFile(<<>>)
    /\ saveCalls' = saveCalls + 1
    /\ pc' = "write"
    /\ UNCHANGED <<config, clock, outcome, locals, before, sendlog, allNormal, runs, token>>

\* save_history: json.dump completes and the file is closed; main returns
SaveWrite ==
    /\ pc = "write"
    /\ disk' = save_history(history)
    /\ Finish("ok")
    /\ UNCHANGED <<config, clock, locals, before, saveCalls, sendlog, runs, token>>

\* the process is killed and its memory is gone; inside save_history any part
\* of the output may have reached the file
Kill ==
    /\ pc \in {"load", "fetch", "select", "send", "write"}
    /\ IF pc = "write"
       THEN \E n \in 0..Len(sorted(history)) :
               disk' = TornFile(SubSeq(sorted(history), 1, n))
       ELSE UNCHANGED disk
    /\ Finish("killed")
    /\ urls' = <<>>
    /\ history' = {}
    /\ entries' = <<>>
    /\ new_entries' = <<>>
    /\ pos' = 1
    /\ new_idx' = <<>>
    /\ reads' = <<>>
    /\ selected' = FALSE
    /\ UNCHANGED <<config, clock, before, saveCalls, sendlog, runs, token>>

Next ==
    \/ StartRun
    \/ LoadHistory
    \/ Fetch
    \/ Select
    \/ Send
    \/ SaveOpen
    \/ SaveWrite
    \/ Kill

Spec == Init /\ [][Next]_vars

\* the same program started on a data.json that holds keys already
SpecSeeded == InitSeeded /\ [][Next]_vars

\* what a key of an entry can hold when feedparser hands the entry over:
\* nothing (no such key), None, "" or a text
FieldValues == {None, Null, Some(<<>>), Some(<<"<", "\n">>)}

\* recent entries of the feed at address "1" with any of FieldValues as title,
\* summary, description and link
FmtEntries ==
    {[id |-> Some(<<"a">>), guid |-> None, link |-> l, title |-> t,
      published_parsed |-> Stamp(1, 1), updated_parsed |-> None,
      created_parsed |-> None, source_title |-> Some(<<"F">>),
      summary |-> s, description |-> d] :
        t \in FieldValues, s \in FieldValues, d \in FieldValues, l \in FieldValues}

\* a first run that has fetched one entry of FmtEntries, has selected it and
\* enters the send loop
InitFmt ==
    /\ config = Some(DefaultConfig)
    /\ disk = JsonFile(<<>>)
    /\ clock = StartClock
    /\ pc = "send"
    /\ outcome = "none"
    /\ urls = load_config_urls(DefaultConfig)
    /\ \E e \in FmtEntries :
          LET r == SelectPass(<<e>>, {}, <<StartClock>>)
          IN /\ entries = <<e>>
             /\ reads = <<StartClock>>
             /\ history = r.history
             /\ new_entries = r.new_entries
             /\ new_idx = r.new_idx
    /\ pos = 1
    /\ selected = TRUE
    /\ before = {}
    /\ saveCalls = 0
    /\ runCalls = <<>>
    /\ attempted = {}
    /\ repeated = {}
    /\ allNormal = TRUE
    /\ runs = 1
    /\ token = Some(<<"t">>)

\* the program from the send loop of such a run on
SpecFmt == InitFmt /\ [][Next]_vars

\* ---- the properties ----

Window == MAX_FETCH_DAYS * 24 * 60 * 60
Sel == Range(new_idx)
KeyAt(i) == extract_entry_id(entries[i])
StampAt(i) == extract_entry_timestamp(entries[i])
RecentAt(i) == is_recent_entry(entries[i], MAX_FETCH_DAYS, reads[i])
NoId(e) == ~Truthy(e.id) /\ ~Truthy(e.guid)
AllEntries == UNION {Feed(u).pool : u \in {<<"1">>, <<"2">>}}

\* the n-th call of send_to_telegram in a run is for the n-th selected entry
SendsFollowSelection ==
    /\ Len(runCalls) <= Len(new_idx)
    /\ \A n \in 1..Len(runCalls) : runCalls[n] = KeyAt(new_idx[n])

\* C1: while every run so far has completed normally, no key has been passed to
\* send_to_telegram more than once, and after a run that went through selection a
\* further run over the same fetch results, at any later clock readings, would
\* select (and so send) nothing.
C1_NoReannounce ==
    allNormal =>
        /\ repeated = {}
        /\ (pc = "done" /\ selected) =>
              \A rs \in Readings(entries, clock) :
                  SelectPass(entries, load_history(disk), rs).new_entries = <<>>

C1_Witness ==
    /\ allNormal
    /\ runs = 2
    /\ pc = "done"
    /\ outcome = "nothing_new"
    /\ \E i \in 1..Len(entries) : RecentAt(i) /\ KeyAt(i) \in attempted

C3_SaveAtomic ==
    (pc = "done" /\ outcome = "killed") =>
        /\ disk.kind = "json"
        /\ Persisted(disk) \in {before, before \cup Range(runCalls)}

\* C4: the keys persisted after a run include the keys persisted before it.
C4_AppendOnly ==
    pc = "done" => before \subseteq Persisted(disk)

\* C5: a second selection pass over the same batch at the same clock readings,
\* with the seen-set the first pass produced, selects nothing.
C5_Idempotent ==
    selected => SelectPass(entries, history, reads).new_entries = <<>>

C5_Witness ==
    /\ selected
    /\ Len(new_entries) >= 2
    /\ before # {}

\* C6: the selected entries have pairwise different keys; a recent entry whose key
\* was not in the loaded seen-set is selected exactly when no earlier recent entry
\* of the batch has its key.
C6_BatchDedup ==
    selected =>
        /\ \A m, n \in 1..Len(new_entries) :
              m # n => extract_entry_id(new_entries[m]) # extract_entry_id(new_entries[n])
        /\ \A i \in 1..Len(entries) :
              (RecentAt(i) /\ KeyAt(i) \notin before) =>
                  (i \in Sel <=> \A j \in 1..(i - 1) : RecentAt(j) => KeyAt(j) # KeyAt(i))

C6_Witness ==
    /\ selected
    /\ \E i, j \in 1..Len(entries) :
          /\ i < j
          /\ entries[i] # entries[j]
          /\ RecentAt(i) /\ RecentAt(j)
          /\ KeyAt(i) = KeyAt(j)
          /\ KeyAt(i) \notin before
          /\ i \in Sel /\ j \notin Sel

\* C7: a dated entry is selected only if its age at its clock reading is at most
\* MAX_FETCH_DAYS days; at exactly that age it is selected when its key is unseen;
\* one second older it is not selected, and only selected entries are sent.
C7_FreshnessBoundary ==
    selected =>
        /\ SendsFollowSelection
        /\ \A i \in 1..Len(entries) :
              StampAt(i) # None =>
                  LET age == reads[i] - StampAt(i)[1]
                  IN /\ i \in Sel => age <= Window
                     /\ (/\ age = Window
                         /\ KeyAt(i) \notin before
                         /\ \A j \in 1..(i - 1) : j \in Sel => KeyAt(j) # KeyAt(i))
                        => i \in Sel
                     /\ age = Window + 1 => i \notin Sel

C7_Witness ==
    /\ selected
    /\ runCalls # <<>>
    /\ \E i, j \in 1..Len(entries) :
          /\ StampAt(i) # None /\ StampAt(j) # None
          /\ reads[i] - StampAt(i)[1] = Window
          /\ i \in Sel
          /\ runCalls[1] = KeyAt(i)
          /\ reads[j] - StampAt(j)[1] = Window + 1
          /\ KeyAt(j) \notin history

\* C8: an entry without any timestamp is not selected, whatever the seen-set holds,
\* and does not bring its key into the seen-set; every key ever sent or persisted
\* is the key of some dated entry.
C8_UndatedNeverSelected ==
    /\ selected =>
          /\ SendsFollowSelection
          /\ \A i \in 1..Len(entries) :
                StampAt(i) = None =>
                    /\ i \notin Sel
                    /\ KeyAt(i) \in history =>
                          (KeyAt(i) \in before \/ \E j \in Sel : KeyAt(j) = KeyAt(i))
    /\ \A k \in attempted \cup Persisted(disk) :
          \E e \in AllEntries : extract_entry_id(e) = k /\ extract_entry_timestamp(e) # None

C8_Witness ==
    /\ pc = "done"
    /\ outcome = "ok"
    /\ \E i \in 1..Len(entries) :
          /\ StampAt(i) = None
          /\ KeyAt(i) \notin history
          /\ KeyAt(i) \notin attempted

\* C9: of two entries of a batch that have neither id nor guid, those with the
\* same link and title have one key and are not both selected (the later one is
\* not selected when the earlier one is recent); those with the same link and
\* different titles have different keys.
C9_IdentityFallback ==
    selected =>
        \A i, j \in 1..Len(entries) :
            (i < j /\ NoId(entries[i]) /\ NoId(entries[j])
                   /\ Get(entries[i].link, <<>>) = Get(entries[j].link, <<>>)) =>
                IF Get(entries[i].title, <<>>) = Get(entries[j].title, <<>>)
                THEN /\ KeyAt(i) = KeyAt(j)
                     /\ ~(i \in Sel /\ j \in Sel)
                     /\ RecentAt(i) => j \notin Sel
                ELSE KeyAt(i) # KeyAt(j)

C9_Witness ==
    /\ selected
    /\ \E i, j \in 1..Len(entries) :
          /\ i < j
          /\ NoId(entries[i]) /\ NoId(entries[j])
          /\ entries[i].link = entries[j].link
          /\ entries[i].title # entries[j].title
          /\ i \in Sel /\ j \in Sel

\* C10: save_history is called at most once in a run and only after an entry was
\* selected; a run that ends with nothing selected, by the empty address list or
\* by the selection pass, has sent nothing, has not called save_history, leaves
\* the persisted keys as they were and exits with status 0.
C10_SaveOnlyIfNew ==
    /\ saveCalls <= 1
    /\ saveCalls = 1 => (runCalls # <<>> /\ (outcome # "killed" => new_entries # <<>>))
    /\ (pc = "done" /\ new_entries = <<>>
                    /\ outcome \notin {"no_token", "load_error", "killed"}) =>
          /\ outcome \in {"no_urls", "nothing_new"}
          /\ ExitStatus(outcome) = 0
          /\ runCalls = <<>>
          /\ saveCalls = 0
          /\ Persisted(disk) = before
          /\ disk.kind = "json"

C10_Witness ==
    /\ pc = "done"
    /\ outcome = "nothing_new"
    /\ before # {}
    /\ \E i \in 1..Len(entries) : RecentAt(i)

\* C11: a run whose TELEGRAM_BOT_TOKEN is missing or empty has ended at once with
\* a non-zero status: the address list was not read, nothing was fetched,
\* selected or sent, save_history was not called, and the persisted keys are
\* those from before the run.
C11_NoTokenFatal ==
    (pc # "idle" /\ ~Truthy(token)) =>
        /\ pc = "done"
        /\ outcome = "no_token"
        /\ ExitStatus(outcome) # 0
        /\ urls = <<>>
        /\ entries = <<>>
        /\ ~selected
        /\ runCalls = <<>>
        /\ saveCalls = 0
        /\ disk.kind # "absent"
        /\ Persisted(disk) = before

C11_Witness ==
    /\ pc = "done"
    /\ outcome = "no_token"
    /\ token = Some(<<>>)
    /\ load_config_urls(config[1]) # <<>>
    /\ before # {}

C13_SaveAfterSends ==
    /\ (pc = "send" /\ pos <= Len(new_entries)) =>
          /\ saveCalls = 0
          /\ disk.kind = "json"
          /\ Persisted(disk) = before
    /\ outcome = "send_error" => saveCalls = 0
    /\ (saveCalls >= 1 /\ outcome # "killed") =>
          /\ pc \in {"write", "done"}
          /\ new_entries # <<>>
          /\ pos = Len(new_entries) + 1
          /\ Len(runCalls) = Len(new_entries)
          /\ SendsFollowSelection

C13_Witness ==
    /\ pc = "write"
    /\ saveCalls = 1
    /\ Len(new_entries) = 2
    /\ Len(runCalls) = 2
    /\ before # {}

\* the place in urls of the address whose feed gave entry i of the batch
FeedAt(i) ==
    CHOOSE n \in 1..Len(urls) :
        [entries[i] EXCEPT !.source_title = None] \in Feed(urls[n]).pool

\* C14: the batch holds the feeds' entries in the order of the address list; the
\* selected entries are, in batch order and whatever their timestamps, exactly
\* the recent entries whose key was not in the loaded seen-set and is not the
\* key of an earlier recent entry; send_to_telegram is called for them in that
\* order.
C14_SelectionOrder ==
    selected =>
        /\ \A i, j \in 1..Len(entries) : i < j => FeedAt(i) <= FeedAt(j)
        /\ Len(new_entries) = Len(new_idx)
        /\ \A n \in 1..Len(new_idx) : new_entries[n] = entries[new_idx[n]]
        /\ \A m, n \in 1..Len(new_idx) : m < n => new_idx[m] < new_idx[n]
        /\ Sel = {i \in 1..Len(entries) :
                    /\ RecentAt(i)
                    /\ KeyAt(i) \notin before
                    /\ \A j \in 1..(i - 1) : RecentAt(j) => KeyAt(j) # KeyAt(i)}
        /\ SendsFollowSelection
        /\ \A n \in 1..Len(runCalls) : runCalls[n] = extract_entry_id(new_entries[n])

C14_Witness ==
    /\ selected
    /\ Len(entries) = 2
    /\ FeedAt(1) = 1
    /\ FeedAt(2) = 2
    /\ new_idx = <<1, 2>>
    /\ StampAt(1)[1] # StampAt(2)[1]
    /\ Len(runCalls) = 2
    /\ entries[1].source_title # entries[2].source_title

\* C15: after the selection pass the in-memory seen-set holds the keys loaded
\* from data.json and the keys of the selected entries, and no other key: no
\* loaded key is dropped, and the key of an entry that was too old, undated or
\* already seen comes in only if it was loaded or is a selected entry's key.
C15_SeenSetAfterSelection ==
    selected =>
        /\ before \subseteq history
        /\ history = before \cup {KeyAt(i) : i \in Sel}
        /\ history = before \cup {extract_entry_id(new_entries[n]) : n \in 1..Len(new_entries)}

C15_Witness ==
    /\ selected
    /\ before # {}
    /\ new_entries # <<>>
    /\ history # before
    /\ \E i \in 1..Len(entries) : ~RecentAt(i) /\ KeyAt(i) \notin history

\* the keys of the calls of send_to_telegram that have returned in this run:
\* pos is advanced by a call that returns, and only by that
ReturnedCalls == {runCalls[n] : n \in 1..(IF pos - 1 < Len(runCalls) THEN pos - 1 ELSE Len(runCalls))}

\* C16: no step, in any run and whether sends fail or the process is killed,
\* brings into data.json (torn or not) a key other than those the file held
\* when the run began or a moment ago, and the keys of the entries for which
\* send_to_telegram has returned in the run; so every key ever in the file was
\* there before the first run or belongs to an entry whose send returned.
C16_PersistedWereDelivered ==
    [][Range(disk'.data) \subseteq Range(disk.data) \cup before \cup ReturnedCalls]_vars

C16_Witness ==
    /\ pc = "done"
    /\ outcome = "ok"
    /\ runs = 2
    /\ SeedKeys \subseteq Persisted(disk)
    /\ Persisted(disk) \cap Range(runCalls) # {}
    /\ \E k \in attempted : k \notin Persisted(disk)

\* C17: while data.json is not parsable and no write is under way, no step
\* changes the file, fetches or sends; a run that reaches load_history ends
\* there with a non-zero status (unless it is killed first).
C17_UnparsableFatal ==
    [][(disk.kind = "torn" /\ pc \in {"load", "done"}) =>
          /\ disk' = disk
          /\ pc' \in {"load", "done"}
          /\ entries' = <<>>
          /\ new_entries' = <<>>
          /\ runCalls' \in {<<>>, runCalls}
          /\ attempted' = attempted
          /\ saveCalls' \in {0, saveCalls}
          /\ pc = "load" =>
                /\ runCalls' = <<>>
                /\ saveCalls' = 0
                /\ pc' = "done"
                /\ outcome' \in {"load_error", "killed"}
                /\ ExitStatus(outcome') # 0]_vars

C17_Witness ==
    /\ pc = "done"
    /\ outcome = "load_error"
    /\ disk.kind = "torn"
    /\ disk.data # <<>>
    /\ entries = <<>>
    /\ runCalls = <<>>
    /\ saveCalls = 0

\* C18: build_message returns a text for every selected entry, whatever its
\* title, summary, description and link hold, so that no run ends in the send
\* loop by an exception of build_message.
C18_BuildMessageTotal ==
    /\ outcome # "format_error"
    /\ \A n \in 1..Len(new_entries) : build_message(new_entries[n]).ok

====
